---- MODULE Spec2Model ----
(***************************************************************************)
(* A model of pyface/tasks/tasks_application.py: TaskFactory and           *)
(* TasksApplication (task creation by factory id, window creation from a   *)
(* layout, the startup hook, the window-closed listener and the cached     *)
(* active_task property).                                                  *)
(*                                                                         *)
(* Tasks, windows and layouts are the toolkit's objects; they are modelled *)
(* as records with exactly the members the application touches.  Objects   *)
(* have an identity (oid for tasks, an index into `window` for windows).   *)
(***************************************************************************)
EXTENDS Integers, Sequences, FiniteSets

\* ------------------------------------------------------------------ bounds
\* The number of Task objects alive at a time.
MaxTasks == 2
\* The number of windows ever created.
MaxWindows == 2

\* ------------------------------------------------------------------ values
None == [none |-> TRUE]

\* active_window is None: no window index
NoWindow == 0

\* The ids a caller may ask for.
TaskIds == {"a", "b"}

Range(s) == {s[i] : i \in 1..Len(s)}

\* TaskFactory(id=..., name=..., factory=...); `factory` is the callable,
\* "often simply a Task subclass", named here by the class it instantiates.
TaskFactory(id, name, factory) == [id |-> id, name |-> name, factory |-> factory]

\* What the callables build before the application adds its own hooks: the
\* class-level contents of Task.extra_actions / extra_dock_pane_factories.
ClassExtraActions(cls) == IF cls = "TaskB" THEN <<"own_action">> ELSE <<>>
ClassExtraDockPanes(cls) == IF cls = "TaskB" THEN <<"own_pane">> ELSE <<>>

\* factory(**traits) -> Task, for a callable that is a Task subclass: the new
\* object takes the traits given by keyword (only `id` is ever passed).
CallFactory(cls, traits, oid) ==
    [oid |-> oid, cls |-> cls, id |-> traits.id,
     extra_actions |-> ClassExtraActions(cls),
     extra_dock_pane_factories |-> ClassExtraDockPanes(cls)]

\* TaskFactory.create(**traits): simply calls the 'factory' attribute.
create(self, traits, oid) == CallFactory(self.factory, traits, oid)

\* TaskWindowLayout(items=...); get_tasks() is the ordered sequence of task ids.
TaskWindowLayout(items) == [items |-> items]
get_tasks(layout) == layout.items

\* _extra_actions_default: the ids of the six standard schema additions.
extra_actions_default ==
    <<"close_action", "exit_action", "TaskToggleGroup", "DockPaneToggleGroup",
      "TaskWindowToggleGroup", "about_action">>

\* The application's dock pane hooks, as its author set them.
app_dock_pane_factories == <<"app_pane">>

\* _default_layout_default: one layout holding the first factory's id, if any.
default_layout_default(factories) ==
    IF factories # <<>>
    THEN <<TaskWindowLayout(<<factories[1].id>>)>>
    ELSE <<TaskWindowLayout(<<>>)>>

\* ------------------------------------------------------------------- state
VARIABLES
    tasks,                      \* TasksApplication.tasks
    task_factories,             \* TasksApplication.task_factories
    default_layout,             \* TasksApplication.default_layout
    extra_actions,              \* TasksApplication.extra_actions
    extra_dock_pane_factories,  \* TasksApplication.extra_dock_pane_factories
    windows,                    \* GUIApplication.windows: indices into `window`
    active_window,              \* GUIApplication.active_window: an index or NoWindow
    window,                     \* every window object ever created
    active_task_cache,          \* the cached_property slot of active_task
    log,                        \* the records the module's logger got from the last call
    nextOid,                    \* the identity of the next Task object
    started,                    \* the startup hook has run
    last                        \* the last call: its arguments and its result

vars == <<tasks, task_factories, default_layout, extra_actions,
          extra_dock_pane_factories, windows, active_window, window,
          active_task_cache, log, nextOid, started, last>>

config == <<task_factories, default_layout, extra_actions, extra_dock_pane_factories>>

\* The factory lists an application is configured with (ties included).
FactoryLists ==
    { <<>>,
      <<TaskFactory("a", "A", "TaskA")>>,
      <<TaskFactory("b", "B", "TaskB"), TaskFactory("a", "A1", "TaskA"),
        TaskFactory("a", "A2", "TaskB")>> }

\* The default layouts an application with these factories is configured
\* with: the default of the trait, an explicit list, or none at all.
DefaultLayouts(factories) ==
    {default_layout_default(factories)}
        \cup (IF Len(factories) = 1
              THEN {<<TaskWindowLayout(<<"a">>), TaskWindowLayout(<<"b">>)>>}
              ELSE {})
        \cup (IF factories = <<>> THEN {<<>>} ELSE {})

\* The layouts a caller may pass: up to two task ids, duplicates included.
Layouts ==
    { TaskWindowLayout(<<"a", "b">>), TaskWindowLayout(<<"b", "b">>) }

\* Keyword arguments for the window factory, as the set of keywords given.
KwargSets == { {}, {"title"} }

Init ==
    /\ tasks = <<>>
    /\ task_factories \in FactoryLists
    /\ default_layout \in DefaultLayouts(task_factories)
    /\ extra_actions = extra_actions_default
    /\ extra_dock_pane_factories = app_dock_pane_factories
    /\ windows = <<>>
    /\ active_window = NoWindow
    /\ window = <<>>
    /\ active_task_cache = [valid |-> FALSE, value |-> None]
    /\ log = <<>>
    /\ nextOid = 1
    /\ started = FALSE
    /\ last = [op |-> "init"]

\* ------------------------------------------------- TasksApplication methods
\* _get_task_factory(id): the first factory of task_factories with that id.
RECURSIVE _get_task_factory_from(_, _, _)
_get_task_factory_from(factories, id, i) ==
    IF i > Len(factories) THEN None
    ELSE IF factories[i].id = id THEN factories[i]
    ELSE _get_task_factory_from(factories, id, i + 1)

\* A lookup that keeps scanning and answers with the last match.
RECURSIVE _get_task_factory_last_from(_, _, _)
_get_task_factory_last_from(factories, id, i) ==
    IF i < 1 THEN None
    ELSE IF factories[i].id = id THEN factories[i]
    ELSE _get_task_factory_last_from(factories, id, i - 1)

_get_task_factory_last(factories, id) ==
    _get_task_factory_last_from(factories, id, Len(factories))

_get_task_factory(factories, id) == _get_task_factory_from(factories, id, 1)

\* A call factory.create(id=factory.name).
create_task_traits_by_name(factory, id) == [id |-> factory.name]

\* The keyword arguments create_task gives to the factory.
create_task_traits(factory, id) == [id |-> factory.id]

\* The hooks create_task adds to a new task.
extend(list, more) == list \o more

\* A create_task that forgets the dock pane hooks.
create_task_without_panes(factories, actions, panes, id, oid) ==
    LET factory == _get_task_factory(factories, id) IN
    IF factory = None
    THEN [task |-> None, factory |-> None,
          log |-> <<[level |-> "WARNING", id |-> id]>>]
    ELSE LET task == create(factory, create_task_traits(factory, id), oid) IN
         [task |-> [task EXCEPT !.extra_actions = extend(@, actions)],
          factory |-> factory,
          log |-> <<>>]

\* create_task(id): the returned task (or None), the log records emitted and
\* the factory that was looked up.
create_task(factories, actions, panes, id, oid) ==
    LET factory == _get_task_factory(factories, id) IN
    IF factory = None
    THEN [task |-> None, factory |-> None,
          log |-> <<[level |-> "WARNING", id |-> id]>>]
    ELSE LET task == create(factory, create_task_traits(factory, id), oid) IN
         [task |-> [task EXCEPT
                      !.extra_actions = extend(@, actions),
                      !.extra_dock_pane_factories = extend(@, panes)],
          factory |-> factory,
          log |-> <<>>]

\* The part of the application a call may change, passed through the methods.
AppState ==
    [window |-> window, windows |-> windows, log |-> <<>>, nextOid |-> nextOid,
     active_window |-> active_window]

\* GUIApplication.create_window(**kwargs): a new, open, bare window built by
\* the window factory (TaskWindow by default) and tracked in `windows`.
super_create_window(S, kwargs) ==
    LET w == [kind |-> "TaskWindow", kwargs |-> kwargs, tasks |-> <<>>,
              active_task |-> None, layout |-> None]
    IN [S EXCEPT !.window = Append(@, w),
                 !.windows = Append(@, Len(S.window) + 1)]

\* TaskWindow.add_task(task)
add_task(win, task) == [win EXCEPT !.tasks = Append(@, task)]

\* TaskWindow.set_window_layout(layout)
set_window_layout(win, layout) == [win EXCEPT !.layout = layout]

\* A create_window that skips a missing factory without a word.
log_missing_factory_silent(records, task_id) == records

\* logger.error('Missing factory for task with ID %r', task_id)
log_missing_factory(records, task_id) ==
    Append(records, [level |-> "ERROR", id |-> task_id])

\* The keyword arguments create_window hands to the base class.
create_window_super_kwargs(kwargs) == {}

\* The loop of create_window over layout.get_tasks().
RECURSIVE create_window_tasks(_, _, _, _)
create_window_tasks(S, wid, ids, i) ==
    IF i > Len(ids) THEN S
    ELSE LET r == create_task(task_factories, extra_actions,
                              extra_dock_pane_factories, ids[i], S.nextOid)
             S1 == [S EXCEPT !.log = @ \o r.log,
                             !.nextOid = IF r.task = None THEN @ ELSE @ + 1]
             S2 == IF r.task # None
                   THEN [S1 EXCEPT !.window[wid] = add_task(@, r.task)]
                   ELSE [S1 EXCEPT !.log = log_missing_factory(@, ids[i])]
         IN create_window_tasks(S2, wid, ids, i + 1)

\* create_window(layout=None, **kwargs): the application afterwards; the
\* returned window is the last one of `window`.
create_window(S, layout, kwargs) ==
    LET S0  == super_create_window(S, create_window_super_kwargs(kwargs))
        wid == Len(S0.window)
        S1  == IF layout # None
               THEN create_window_tasks(S0, wid, get_tasks(layout), 1)
               ELSE S0
        applied == IF layout # None THEN layout ELSE TaskWindowLayout(<<>>)
    IN [S1 EXCEPT !.window[wid] = set_window_layout(@, applied)]

\* _create_windows(): one window per layout of default_layout, each made the
\* active window as it is created.
RECURSIVE _create_windows_from(_, _, _)
_create_windows_from(S, layouts, i) ==
    IF i > Len(layouts) THEN S
    ELSE LET S1 == create_window(S, layouts[i], {})
         IN _create_windows_from([S1 EXCEPT !.active_window = Len(S1.window)],
                                 layouts, i + 1)

\* A startup hook that leaves the first window it made active.
_create_windows_first_active(S, layouts) ==
    LET S1 == _create_windows_from(S, layouts, 1)
    IN [S1 EXCEPT !.active_window =
                     IF layouts = <<>> THEN S.active_window ELSE Len(S.window) + 1]

_create_windows(S, layouts) == _create_windows_from(S, layouts, 1)

\* getattr(window, 'active_task', None)
getattr_active_task(win) ==
    IF win.kind = "TaskWindow" THEN win.active_task ELSE None

\* list.remove(x): drops the first occurrence.
RECURSIVE remove(_, _)
remove(list, x) ==
    IF list = <<>> THEN <<>>
    ELSE IF Head(list) = x THEN Tail(list)
    ELSE <<Head(list)>> \o remove(Tail(list), x)

\* GUIApplication._on_window_closed: the window's handle is released.
super_on_window_closed(S, wid) ==
    [S EXCEPT !.windows = remove(@, wid),
              !.calls = Append(@, "super._on_window_closed")]

\* A listener that only delegates to the base class.
_on_window_closed_keeps(S, wid) == super_on_window_closed(S, wid)

\* _on_window_closed(window, trait, old, new), on the application's tasks and
\* windows; `calls` records what the listener did, in order.
_on_window_closed(S, wid) ==
    LET at == getattr_active_task(window[wid])
        S1 == IF at \in Range(S.tasks)
              THEN [S EXCEPT !.tasks = remove(@, at),
                             !.calls = Append(@, "tasks.remove")]
              ELSE S
    IN super_on_window_closed(S1, wid)

\* _get_active_task: the getter behind the active_task property.
_get_active_task(aw) ==
    IF aw # NoWindow THEN getattr_active_task(window[aw]) ELSE None

\* depends_on='active_window': only a new active window drops the value.
active_task_invalidated_window_only(before, after, changed) == before # after

\* depends_on='active_window.active_task': the cached value is dropped when
\* active_window is assigned another window, or when the active_task of the
\* window that is the active window changes (`changed`, or NoWindow).
active_task_invalidated(before, after, changed) ==
    \/ before # after
    \/ (changed # NoWindow /\ changed = after)

Invalidate(cache, drop) == IF drop THEN [valid |-> FALSE, value |-> None] ELSE cache

\* --------------------------------------------------------------- operations
\* The public call app.create_task(id).  The caller drops the task it gets, so
\* the object's identity is free again after the call.
CreateTask(id) ==
    /\ nextOid <= MaxTasks
    /\ LET r == create_task(task_factories, extra_actions,
                            extra_dock_pane_factories, id, nextOid) IN
       /\ log' = r.log
       /\ nextOid' = nextOid
       /\ last' = [op |-> "create_task", id |-> id, result |-> r.task,
                   factory |-> r.factory,
                   before |-> <<tasks, task_factories, extra_actions,
                                extra_dock_pane_factories>>]
    /\ UNCHANGED <<tasks, config, windows, active_window, window,
                   active_task_cache, started>>

\* The public call app.create_window(layout, **kwargs).
CreateWindow(layout, kwargs) ==
    /\ Len(window) < MaxWindows
    /\ LET S == create_window(AppState, layout, kwargs) IN
       /\ S.nextOid <= MaxTasks + 1
       /\ window' = S.window
       /\ windows' = S.windows
       /\ log' = S.log
       /\ nextOid' = S.nextOid
       /\ last' = [op |-> "create_window", layout |-> layout, kwargs |-> kwargs,
                   result |-> Len(S.window)]
    /\ UNCHANGED <<tasks, config, active_window, active_task_cache, started>>

\* Application start, before the application has made any task window: the
\* startup hook _create_windows().
CreateWindows ==
    /\ ~started
    /\ \A i \in 1..Len(window) : window[i].kind # "TaskWindow"
    /\ Len(window) + Len(default_layout) <= MaxWindows
    /\ LET S == _create_windows(AppState, default_layout) IN
       /\ S.nextOid <= MaxTasks + 1
       /\ window' = S.window
       /\ windows' = S.windows
       /\ log' = S.log
       /\ nextOid' = S.nextOid
       /\ active_window' = S.active_window
       /\ active_task_cache' =
             Invalidate(active_task_cache,
                        active_task_invalidated(active_window, S.active_window, NoWindow))
       /\ last' = [op |-> "_create_windows", first |-> Len(window) + 1,
                   before |-> active_window]
    /\ started' = TRUE
    /\ UNCHANGED <<tasks, config>>

\* Some other code opens a window that is no TaskWindow (it has no
\* active_task attribute) and the application tracks it.
AddPlainWindow ==
    /\ Len(window) < MaxWindows
    /\ window' = Append(window, [kind |-> "Window", kwargs |-> {}, tasks |-> <<>>,
                                 active_task |-> None, layout |-> None])
    /\ windows' = Append(windows, Len(window) + 1)
    /\ log' = <<>>
    /\ last' = [op |-> "add_window"]
    /\ UNCHANGED <<tasks, config, active_window, active_task_cache,
                   nextOid, started>>

\* Application code records a task of an open window as running:
\* app.tasks.append(task).
TrackTask(wid, i) ==
    /\ wid \in Range(windows)
    /\ i \in 1..Len(window[wid].tasks)
    /\ window[wid].tasks[i] \notin Range(tasks)
    /\ tasks' = Append(tasks, window[wid].tasks[i])
    /\ log' = <<>>
    /\ last' = [op |-> "tasks.append"]
    /\ UNCHANGED <<config, windows, active_window, window, active_task_cache,
                   nextOid, started>>

\* The toolkit changes a window's active task to another of its tasks.
ActivateTask(wid, t) ==
    /\ wid \in Range(windows)
    /\ window[wid].kind = "TaskWindow"
    /\ t \in Range(window[wid].tasks)
    /\ t # window[wid].active_task
    /\ window' = [window EXCEPT ![wid].active_task = t]
    /\ active_task_cache' =
          Invalidate(active_task_cache,
                     active_task_invalidated(active_window, active_window, wid))
    /\ log' = <<>>
    /\ last' = [op |-> "activate_task"]
    /\ UNCHANGED <<tasks, config, windows, active_window, nextOid, started>>

\* app.active_window = w (the base class does so on activation, too).
SetActiveWindow(w) ==
    /\ w \in Range(windows) \cup {NoWindow}
    /\ w # active_window
    /\ active_window' = w
    /\ active_task_cache' =
          Invalidate(active_task_cache,
                     active_task_invalidated(active_window, w, NoWindow))
    /\ log' = <<>>
    /\ last' = [op |-> "set_active_window"]
    /\ UNCHANGED <<tasks, config, windows, window, nextOid, started>>

\* Reading app.active_task: the cached value if there is one, else the getter.
ReadActiveTask ==
    /\ LET value == IF active_task_cache.valid
                    THEN active_task_cache.value
                    ELSE _get_active_task(active_window) IN
       /\ active_task_cache' = [valid |-> TRUE, value |-> value]
       /\ last' = [op |-> "active_task", result |-> value]
    /\ log' = <<>>
    /\ UNCHANGED <<tasks, config, windows, active_window, window,
                   nextOid, started>>

\* A tracked window fires `closed`: the listener _on_window_closed runs.
WindowClosed(wid) ==
    /\ wid \in Range(windows)
    /\ LET S == _on_window_closed([tasks |-> tasks, windows |-> windows,
                                   calls |-> <<>>], wid) IN
       /\ tasks' = S.tasks
       /\ windows' = S.windows
       /\ last' = [op |-> "closed", window |-> wid, calls |-> S.calls,
                   before |-> tasks]
    /\ log' = <<>>
    /\ UNCHANGED <<config, active_window, window, active_task_cache,
                   nextOid, started>>

Next ==
    \/ \E id \in TaskIds : CreateTask(id)
    \/ \E layout \in Layouts \cup {None}, kwargs \in KwargSets :
          CreateWindow(layout, kwargs)
    \/ CreateWindows
    \/ AddPlainWindow
    \/ \E wid \in Range(windows) :
          \E i \in 1..Len(window[wid].tasks) : TrackTask(wid, i)
    \/ \E wid \in Range(windows) :
          \E t \in Range(window[wid].tasks) : ActivateTask(wid, t)
    \/ \E w \in Range(windows) \cup {NoWindow} : SetActiveWindow(w)
    \/ ReadActiveTask
    \/ \E wid \in Range(windows) : WindowClosed(wid)

Spec == Init /\ [][Next]_vars

TypeOK ==
    /\ nextOid \in 1..(MaxTasks + 1)
    /\ Len(window) <= MaxWindows
    /\ Range(windows) \subseteq 1..Len(window)
    /\ active_window \in 0..Len(window)

\* ------------------------------------------------------------------ claims
HasFactory(id) == \E i \in 1..Len(task_factories) : task_factories[i].id = id

Ids(ts) == [i \in 1..Len(ts) |-> ts[i].id]

Registered(id) == HasFactory(id)
Unregistered(id) == ~HasFactory(id)

IsError(rec) == rec.level = "ERROR"
IsWarning(rec) == rec.level = "WARNING"

\* C1: create_task(id) returns a task with the requested id exactly when some
\* factory of task_factories has that id; otherwise it returns None and the
\* logger gets exactly one record, a warning.
C1_CreateTaskResult ==
    last.op = "create_task" =>
        /\ (last.result # None) <=> HasFactory(last.id)
        /\ last.result # None => last.result.id = last.id
        /\ last.result = None => (Len(log) = 1 /\ IsWarning(log[1]))

C1_Witness ==
    /\ last.op = "create_task"
    /\ last.result = None
    /\ task_factories # <<>>
    /\ Len(log) = 1

\* C2: create_window(layout) attaches one task per layout id that has a
\* factory, in layout order and one object per occurrence; the logger gets one
\* error record per layout id without a factory, naming it, in layout order;
\* and the layout is applied to the window.
C2_CreateWindowTolerant ==
    (last.op = "create_window" /\ last.layout # None) =>
        LET w   == window[last.result]
            ids == get_tasks(last.layout)
        IN /\ Ids(w.tasks) = SelectSeq(ids, Registered)
           /\ Cardinality({w.tasks[i].oid : i \in 1..Len(w.tasks)}) = Len(w.tasks)
           /\ Ids(SelectSeq(log, IsError)) = SelectSeq(ids, Unregistered)
           /\ w.layout = last.layout
           /\ last.result \in Range(windows)

C2_Witness ==
    /\ last.op = "create_window"
    /\ last.layout = TaskWindowLayout(<<"a", "b">>)
    /\ Ids(window[last.result].tasks) = <<"a">>
    /\ Ids(SelectSeq(log, IsError)) = <<"b">>
    /\ window[last.result].layout = last.layout

C4_TasksHoldRunningTasks ==
    /\ \A w \in Range(windows) : Range(window[w].tasks) \subseteq Range(tasks)
    /\ \A i, j \in 1..Len(tasks) : i < j => tasks[i].oid < tasks[j].oid

\* C5: when a window closes, its active task leaves `tasks` if it was there and
\* `tasks` is unchanged otherwise (no active task and no active_task attribute
\* included); the base class's handling runs in both cases, after the removal.
C5_WindowClosed ==
    last.op = "closed" =>
        LET at == getattr_active_task(window[last.window])
        IN /\ at \in Range(last.before) =>
                 /\ at \notin Range(tasks)
                 /\ Len(tasks) = Len(last.before) - 1
                 /\ Range(tasks) = Range(last.before) \ {at}
                 /\ last.calls = <<"tasks.remove", "super._on_window_closed">>
           /\ at \notin Range(last.before) =>
                 /\ tasks = last.before
                 /\ last.calls = <<"super._on_window_closed">>
           /\ last.window \notin Range(windows)

C5_Witness ==
    /\ last.op = "closed"
    /\ getattr_active_task(window[last.window]) \in Range(last.before)
    /\ Len(last.before) = 2

\* C6: reading active_task gives None when active_window is None and the
\* current active task of the current active window otherwise; a cached value
\* is never out of date.
C6_ActiveTaskCurrent ==
    LET current == IF active_window = NoWindow THEN None
                   ELSE IF window[active_window].kind = "TaskWindow"
                        THEN window[active_window].active_task
                        ELSE None
    IN /\ last.op = "active_task" => last.result = current
       /\ active_task_cache.valid => active_task_cache.value = current

C6_Witness ==
    /\ last.op = "active_task"
    /\ last.result # None
    /\ active_window = 2
    /\ Len(window[2].tasks) = 2
    /\ last.result = window[2].tasks[2]

\* C7: the window create_window returns was built with the keyword arguments
\* the caller gave.
C7_KwargsReachWindowFactory ==
    last.op = "create_window" => window[last.result].kwargs = last.kwargs

\* C8: the startup hook makes one window per layout of default_layout, in
\* order, and leaves the window of the last layout active; with no layout it
\* makes no window and leaves active_window alone.
C8_CreateWindows ==
    last.op = "_create_windows" =>
        LET n == Len(default_layout)
        IN /\ Len(window) = last.first - 1 + n
           /\ \A i \in 1..n :
                 /\ window[last.first - 1 + i].layout = default_layout[i]
                 /\ window[last.first - 1 + i].kind = "TaskWindow"
                 /\ Ids(window[last.first - 1 + i].tasks)
                       = SelectSeq(get_tasks(default_layout[i]), Registered)
           /\ active_window = IF n = 0 THEN last.before ELSE Len(window)

C8_Witness ==
    /\ last.op = "_create_windows"
    /\ Len(default_layout) = 2
    /\ active_window = 2
    /\ window[1].layout = default_layout[1]
    /\ window[2].layout = default_layout[2]

\* C9: the factory looked up for an id is the first one of task_factories with
\* that id (None when there is none), and the task create_task returns was
\* built by that factory's callable.
C9_FirstFactoryWins ==
    last.op = "create_task" =>
        LET matches == {i \in 1..Len(task_factories) : task_factories[i].id = last.id}
        IN IF matches = {}
           THEN last.factory = None /\ last.result = None
           ELSE LET first == CHOOSE i \in matches : \A j \in matches : i <= j
                IN /\ last.factory = task_factories[first]
                   /\ last.result.cls = task_factories[first].factory

C9_Witness ==
    /\ last.op = "create_task"
    /\ Cardinality({i \in 1..Len(task_factories) : task_factories[i].id = last.id}) = 2
    /\ last.factory.name = "A1"
    /\ last.result.cls = "TaskA"

\* C10: a task create_task returns carries what its factory produced followed
\* by the application's extra_actions / extra_dock_pane_factories, was built
\* with the factory's id, and the application's own lists are as before.
C10_CreateTaskHooks ==
    (last.op = "create_task" /\ last.result # None) =>
        /\ last.result.id = last.factory.id
        /\ last.result.extra_actions
              = ClassExtraActions(last.factory.factory) \o extra_actions
        /\ last.result.extra_dock_pane_factories
              = ClassExtraDockPanes(last.factory.factory) \o extra_dock_pane_factories
        /\ <<tasks, task_factories, extra_actions, extra_dock_pane_factories>>
              = last.before

C10_Witness ==
    /\ last.op = "create_task"
    /\ last.result # None
    /\ last.result.extra_actions = <<"own_action">> \o extra_actions_default
    /\ last.result.extra_dock_pane_factories = <<"own_pane", "app_pane">>
    /\ tasks # <<>>
====
